---- MODULE Spec2Model ----
(***************************************************************************)
(* Gesture-driven interaction state of the 3D viewer.                      *)
(*                                                                         *)
(* Scene3D mounts one controllable object (SolarSystem, CarModel,          *)
(* ChairModel or InteractiveModel).  Each object keeps the refs            *)
(* targetRotation, targetPosition, targetScale and isFrozen and, once per  *)
(* rendered frame, runs its useFrame callback on the GestureState it got   *)
(* as a prop.  The hook publishes a new GestureState with setGesture.      *)
(*                                                                         *)
(* Numbers.  The program computes in floating point; the model computes    *)
(* the same expressions exactly, in fixed point: the integer n stands for  *)
(* n / One.  One = 500 * 20^MaxFrames makes 0.01, MaxFrames successive     *)
(* multiplications by 0.15 = 3/20 or 0.1 = 2/20 and one by 0.35 exact.     *)
(*                                                                         *)
(* The hook useHandTracking turns each detection result into the published *)
(* GestureState (processResults, calculateGesture) and keeps the previous  *)
(* palm position in the ref prevPalmPosition.  Landmark coordinates are    *)
(* counted in hundredths of the normalised image size.                     *)
(*                                                                         *)
(* The page plays an audio cue on each rising edge of a gesture flag       *)
(* (playSound, debounced per sound type), switches the mounted object      *)
(* (handleModelChange) and shows the active gesture (GestureIndicator);    *)
(* the hook draws the hand overlay in the colours of the gesture.          *)
(*                                                                         *)
(* Tracking is started by the page's auto-start timer through the async    *)
(* startTracking and stopped by stopTracking; the model keeps the values   *)
(* each startTracking callback captured apart from the current state.      *)
(***************************************************************************)
EXTENDS Integers, FiniteSets, Sequences, TLC

\* Number of rendered frames a behaviour runs (keeps the fixed point exact).
MaxFrames == 3

\* 1.0 in fixed point.  500 * 20^MaxFrames keeps 0.01, MaxFrames
\* multiplications by 3/20 or 2/20 and one by 0.35 = 7/20 exact.
One == 500 * (20 ^ MaxFrames)
Hundredth == One \div 100

Vec(a, b) == [x |-> a, y |-> b]
Zero2 == Vec(0, 0)
\* An optional value: <<>> is null, <<v>> is the value v.
Null == <<>>
Some(v) == <<v>>

(***************************************************************************)
(* GestureState (the hook's published state and the objects' prop).        *)
(***************************************************************************)
GestureFlags ==
  {"isZoomIn", "isZoomOut", "isOpenHand", "isFist", "isPeace", "isReset"}

MkGesture(S, palm, rot, pos) ==
  [isZoomIn     |-> "isZoomIn" \in S,
   isZoomOut    |-> "isZoomOut" \in S,
   isOpenHand   |-> "isOpenHand" \in S,
   isFist       |-> "isFist" \in S,
   isPeace      |-> "isPeace" \in S,
   isReset      |-> "isReset" \in S,
   palmPosition |-> palm,
   rotation     |-> rot,
   position     |-> pos]

\* useState initial value, and the value published when no hand is seen.
NoHandGesture == MkGesture({}, Null, Zero2, Zero2)

FlagsOf(g) == {f \in GestureFlags : g[f]}

\* Deltas carried by the input GestureStates.  (0.06, -0.15) is the
\* rotation delta of a palm moving from (0.4,0.4) to (0.45,0.42);
\* (+10,+10) and (-10,-10) overrun the position range; (0.5,-0.25) stays
\* inside it.
MovingRotation == Vec(6 * Hundredth, -15 * Hundredth)
PlusTen == Vec(10 * One, 10 * One)
MinusTen == Vec(-10 * One, -10 * One)
SmallMove == Vec(50 * Hundredth, -25 * Hundredth)

PalmSeen == Vec(45 * Hundredth, 42 * Hundredth)

\* Flag combinations of the input GestureStates: no flag, each flag alone,
\* isFist with each other flag, isReset with each other flag.
InputFlagSets ==
  {{}} \cup {{f} : f \in GestureFlags}
       \cup {{"isFist", f} : f \in GestureFlags}
       \cup {{"isReset", f} : f \in GestureFlags}

\* The GestureState values an object is driven with: the no-hand state, a
\* moving hand with each flag combination, and the peace gesture with two
\* more position deltas.
GestureInputs ==
  {NoHandGesture}
  \cup { MkGesture(S, Some(PalmSeen), MovingRotation, PlusTen) :
           S \in InputFlagSets }
  \cup { MkGesture({"isPeace"}, Some(PalmSeen), Zero2, d) :
           d \in {MinusTen, SmallMove} }

(***************************************************************************)
(* Per-object configuration.                                               *)
(***************************************************************************)
ModelTypes == {"solar", "car", "chair", "primitive"}

ScaleMax == 3 * One
ScaleMin(m) == IF m = "solar" THEN 20 * Hundredth ELSE 30 * Hundredth
ZoomStep == 2 * Hundredth
PositionClampX == 3 * One
PositionClampY == 2 * One
\* SolarSystem tilts the rendered x rotation by 0.2.
RotationTilt(m) == IF m = "solar" THEN 20 * Hundredth ELSE 0
\* <group scale={0.35}> for the solar system, 1 otherwise.
InitialScale(m) == IF m = "solar" THEN 35 * Hundredth ELSE One

\* Smoothing factors as twentieths: 0.15 = 3/20, 0.1 = 2/20.
SmoothingDen == 20
RotationSmoothing == 3
PositionSmoothing == 3
ScaleSmoothing == 2

Min(a, b) == IF a < b THEN a ELSE b
Max(a, b) == IF a > b THEN a ELSE b

\* Faulty variant of Lerp: the target is assigned without smoothing.
LerpJump(x, y, num) == y

\* THREE.MathUtils.lerp(x, y, t) = x + (y - x) * t, t = num / SmoothingDen.
Lerp(x, y, num) == x + ((y - x) \div SmoothingDen) * num

VARIABLES
  modelType,       \* the object Scene3D renders
  gesture,         \* the GestureState prop
  rendered,        \* frames that ran on this value of gesture (history)
  wasFrozen,       \* isFrozen at the start of the last frame (history)
  targetRotation, targetPosition, targetScale, isFrozen,
  rotation, position, scale,   \* the rendered object's transform
  currentScale,    \* SolarSystem's currentScale ref (0: the others have none)
  frames,          \* frames rendered so far
  landmarks,       \* the hook's landmarks state (Null: no hand)
  prevPalmPosition,  \* the hook's prevPalmPosition ref
  palmBefore,      \* prevPalmPosition when the last result came in (history)
  handBefore,      \* palm of the last hand seen before the last result (history)
  selected,        \* the page's modelType state
  isTracking,      \* the hook's isTracking state
  prevGesture,     \* the page's prevGesture ref
  effectPending,   \* gesture changed and the sound effect has not run yet
  lastPlayed,      \* useSoundEffects' lastPlayed ref: sound type -> time
  now,             \* Date.now(), in milliseconds
  cued,            \* flags whose cue the last effect run requested (history)
  played,          \* sound types the last handler played, in order (history)
  indicator,       \* the gesture GestureIndicator last showed
  overlay,         \* the gesture whose colours the overlay was last drawn in
  isLoading,       \* the hook's isLoading state
  handLandmarkerRef,  \* Null, or Some("landmarker") once the model is loaded
  stream,          \* the video element plays a live camera stream
  loadingModel,    \* startTracking calls awaiting the model
  openingCamera,   \* startTracking calls awaiting the camera
  chains,          \* requestAnimationFrame chains of detectHands running
  closure,         \* isTracking, isLoading captured by the rendered startTracking
  timer,           \* the auto-start timer: Null, or the closure it will call
  stopped,         \* stopTracking ran and startTracking was not called since (history)
  startedOnce,     \* a startTracking call has started the detection loop (history)
  lastStart        \* how the last startTracking call ended (history)

vars == <<modelType, gesture, rendered, wasFrozen, targetRotation, targetPosition,
          targetScale, isFrozen, rotation, position, scale, currentScale,
          frames, landmarks, prevPalmPosition, palmBefore, handBefore,
          selected, isTracking, prevGesture, effectPending, lastPlayed, now,
          cued, played, indicator, overlay, isLoading, handLandmarkerRef,
          stream, loadingModel, openingCamera, chains, closure, timer,
          stopped, startedOnce, lastStart>>

objectVars == <<modelType, wasFrozen, targetRotation, targetPosition,
                targetScale, isFrozen, rotation, position, scale,
                currentScale, frames>>
trackingVars == <<isLoading, handLandmarkerRef, stream, loadingModel,
                  openingCamera, chains, closure, timer, stopped,
                  startedOnce, lastStart>>
hookVars == <<landmarks, prevPalmPosition, palmBefore, handBefore,
              trackingVars>>

soundVars == <<prevGesture, effectPending, lastPlayed, now, cued, played>>
indicatorVars == <<isTracking, indicator, overlay>>
pageVars == <<selected, soundVars, indicatorVars>>

\* The page's model types; the four shapes share the component
\* InteractiveModel.
PageModelTypes ==
  {"torus", "sphere", "cube", "icosahedron", "car", "chair", "solar"}
Shapes == {"torus", "sphere", "cube", "icosahedron"}
ComponentOf(type) == IF type \in Shapes THEN "primitive" ELSE type

SoundTypes == {"zoom", "rotate", "freeze", "reset", "move", "select"}

\* Date.now() when the page is mounted, and the step of the clock.  Any
\* start of at least one second lets the first cue of each type pass the
\* debounce test, as it does on the real clock.
StartTime == 1000
TickMs == 500
\* Number of clock steps a behaviour takes.
MaxTicks == 2

\* The page before its first effect has run; nothing shown or drawn yet.
PageInit ==
  /\ isTracking = FALSE
  /\ prevGesture = Null
  /\ effectPending = TRUE
  /\ lastPlayed = [t \in SoundTypes |-> 0]
  /\ now = StartTime
  /\ cued = {}
  /\ played = <<>>
  /\ indicator = "none"
  /\ overlay = "none"

\* The values of isTracking and isLoading a startTracking callback captured
\* when it was created (its useCallback dependencies).
Closure(tracking, loading) == [isTracking |-> tracking, isLoading |-> loading]

\* The hook's lifecycle state after the first render: nothing loaded, no
\* loop, and the page's auto-start effect has armed its timer with the
\* first startTracking.
TrackingInit ==
  /\ isLoading = FALSE
  /\ handLandmarkerRef = Null
  /\ stream = FALSE
  /\ loadingModel = 0
  /\ openingCamera = 0
  /\ chains = 0
  /\ closure = Closure(FALSE, FALSE)
  /\ timer = Some(Closure(FALSE, FALSE))
  /\ stopped = FALSE
  /\ startedOnce = FALSE
  /\ lastStart = "none"

\* useState(null) for landmarks, useRef(null) for prevPalmPosition.
HookInit ==
  /\ landmarks = Null
  /\ prevPalmPosition = Null
  /\ palmBefore = Null
  /\ handBefore = Null
  /\ TrackingInit

Init ==
  /\ modelType \in ModelTypes
  /\ gesture = NoHandGesture
  /\ rendered = 0
  /\ wasFrozen = FALSE
  /\ targetRotation = Zero2
  /\ targetPosition = Zero2
  /\ targetScale = One
  /\ isFrozen = FALSE
  /\ rotation = Zero2
  /\ position = Zero2
  /\ scale = InitialScale(modelType)
  /\ currentScale = IF modelType = "solar" THEN 35 * Hundredth ELSE 0
  /\ frames = 0
  /\ HookInit
  /\ PageInit
  /\ selected = (IF modelType = "primitive" THEN "torus" ELSE modelType)

(***************************************************************************)
(* The steps of useFrame, on the record                                    *)
(*   st = [targetRotation, targetPosition, targetScale, isFrozen].         *)
(***************************************************************************)
\* Faulty variant of FreezeOnFist: the negation of isFrozen.current is lost.
FreezeOnFistInverted(st, g) ==
  IF g.isFist /\ st.isFrozen THEN [st EXCEPT !.isFrozen = TRUE] ELSE st

\* if (gesture.isFist && !isFrozen.current) isFrozen.current = true;
FreezeOnFist(st, g) ==
  IF g.isFist /\ ~st.isFrozen THEN [st EXCEPT !.isFrozen = TRUE] ELSE st

\* Faulty variant of ReleaseOnGesture: any frame without a fist unfreezes.
ReleaseWhenNoFist(st, g) ==
  IF ~g.isFist THEN [st EXCEPT !.isFrozen = FALSE] ELSE st

\* Faulty variant of ReleaseOnGesture: isPeace is missing from the disjunction.
ReleaseOmitsPeace(st, g) ==
  IF ~g.isFist /\ (g.isOpenHand \/ g.isZoomIn \/ g.isZoomOut \/ g.isReset)
  THEN [st EXCEPT !.isFrozen = FALSE]
  ELSE st

\* if (!gesture.isFist && (isOpenHand || isZoomIn || isZoomOut || isPeace
\*     || isReset)) isFrozen.current = false;
ReleaseOnGesture(st, g) ==
  IF ~g.isFist /\ (g.isOpenHand \/ g.isZoomIn \/ g.isZoomOut \/ g.isPeace
                   \/ g.isReset)
  THEN [st EXCEPT !.isFrozen = FALSE]
  ELSE st

\* Faulty variant of ApplyReset: isFrozen.current is not cleared.
ApplyResetKeepFrozen(st, g) ==
  IF g.isReset
  THEN [targetRotation |-> Zero2, targetPosition |-> Zero2,
        targetScale |-> One, isFrozen |-> st.isFrozen]
  ELSE st

\* if (gesture.isReset) { ... }
ApplyReset(st, g) ==
  IF g.isReset
  THEN [targetRotation |-> Zero2, targetPosition |-> Zero2,
        targetScale |-> One, isFrozen |-> FALSE]
  ELSE st

\* Faulty variant of Clamp: the upper limit is not applied.
ClampNoUpper(v, lo, hi) == Max(lo, v)

\* Math.max(lo, Math.min(hi, v))
Clamp(v, lo, hi) == Max(lo, Min(hi, v))

\* Faulty variant of ApplyOpenHand: the delta is added whatever the flag.
ApplyOpenHandAlways(st, g) ==
  [st EXCEPT !.targetRotation = Vec(@.x + g.rotation.x, @.y + g.rotation.y)]

\* Faulty variant of ApplyOpenHand: the delta replaces the target.
ApplyOpenHandAssign(st, g) ==
  IF g.isOpenHand
  THEN [st EXCEPT !.targetRotation = g.rotation]
  ELSE st

\* if (gesture.isOpenHand) { targetRotation += gesture.rotation }
ApplyOpenHand(st, g) ==
  IF g.isOpenHand
  THEN [st EXCEPT !.targetRotation =
          Vec(@.x + g.rotation.x, @.y + g.rotation.y)]
  ELSE st

\* if (gesture.isPeace) { targetPosition += gesture.position; clamp }
ApplyPeace(st, g) ==
  IF g.isPeace
  THEN [st EXCEPT !.targetPosition =
          Vec(Clamp(@.x + g.position.x, -PositionClampX, PositionClampX),
              Clamp(@.y + g.position.y, -PositionClampY, PositionClampY))]
  ELSE st

\* Faulty variant of ApplyZoomIn: the scale grows whatever the flag.
ApplyZoomInAlways(st, g) ==
  [st EXCEPT !.targetScale = Min(ScaleMax, @ + ZoomStep)]

\* Faulty variant of ApplyZoomIn: the upper limit is not applied.
ApplyZoomInNoCeiling(st, g) ==
  IF g.isZoomIn
  THEN [st EXCEPT !.targetScale = @ + ZoomStep]
  ELSE st

\* if (gesture.isZoomIn) targetScale = Math.min(3, targetScale + 0.02);
ApplyZoomIn(st, g) ==
  IF g.isZoomIn
  THEN [st EXCEPT !.targetScale = Min(ScaleMax, @ + ZoomStep)]
  ELSE st

\* Faulty variant of ApplyZoomOut: the lower limit is not applied.
ApplyZoomOutNoFloor(st, g, scaleMin) ==
  IF g.isZoomOut
  THEN [st EXCEPT !.targetScale = @ - ZoomStep]
  ELSE st

\* if (gesture.isZoomOut) targetScale = Math.max(scaleMin, targetScale - 0.02);
ApplyZoomOut(st, g, scaleMin) ==
  IF g.isZoomOut
  THEN [st EXCEPT !.targetScale = Max(scaleMin, @ - ZoomStep)]
  ELSE st

\* Faulty variant of UpdateTargets: the isFrozen guard is missing.
UpdateTargetsAlways(st, g, scaleMin) ==
  ApplyZoomOut(ApplyZoomIn(ApplyPeace(ApplyOpenHand(st, g), g), g),
               g, scaleMin)

\* if (!isFrozen.current) { open hand; peace; zoom in; zoom out }
UpdateTargets(st, g, scaleMin) ==
  IF ~st.isFrozen
  THEN ApplyZoomOut(ApplyZoomIn(ApplyPeace(ApplyOpenHand(st, g), g), g),
                    g, scaleMin)
  ELSE st

\* Faulty variant of Advance: the release test runs after the updates.
AdvanceLateRelease(st, g, scaleMin) ==
  ReleaseOnGesture(UpdateTargets(ApplyReset(FreezeOnFist(st, g), g),
                                 g, scaleMin), g)

\* Faulty variant of Advance: the reset runs after the updates.
AdvanceResetLast(st, g, scaleMin) ==
  ApplyReset(UpdateTargets(ReleaseOnGesture(FreezeOnFist(st, g), g),
                           g, scaleMin), g)

\* Faulty variant of Advance: the fist test runs after the updates.
AdvanceLateFreeze(st, g, scaleMin) ==
  FreezeOnFist(UpdateTargets(ApplyReset(ReleaseOnGesture(st, g), g),
                             g, scaleMin), g)

\* The target state at the end of a frame.
Advance(st, g, scaleMin) ==
  UpdateTargets(ApplyReset(ReleaseOnGesture(FreezeOnFist(st, g), g), g),
                g, scaleMin)

SmoothRotation(cur, target, tilt) ==
  Vec(Lerp(cur.x, target.x + tilt, RotationSmoothing),
      Lerp(cur.y, target.y, RotationSmoothing))

SmoothPosition(cur, target) ==
  Vec(Lerp(cur.x, target.x, PositionSmoothing),
      Lerp(cur.y, target.y, PositionSmoothing))

\* Faulty variant of SmoothScale: the scale chases 0.35 * target, the value kept in
\* SolarSystem's currentScale ref.
SmoothScaleTowardRef(cur, target) ==
  Lerp(cur, (target \div 20) * 7, ScaleSmoothing)

SmoothScale(cur, target) == Lerp(cur, target, ScaleSmoothing)

TargetState ==
  [targetRotation |-> targetRotation, targetPosition |-> targetPosition,
   targetScale |-> targetScale, isFrozen |-> isFrozen]

\* One useFrame callback of the object of type m.  The callback returns at
\* once while groupRef (meshRef) is unset; the refs are set when the object
\* mounts, before its first frame, so that guard is always passed here.
UseFrame(m) ==
  /\ modelType = m
  /\ frames < MaxFrames
  /\ LET st == Advance(TargetState, gesture, ScaleMin(m))
         newScale == SmoothScale(scale, st.targetScale)
     IN /\ targetRotation' = st.targetRotation
        /\ targetPosition' = st.targetPosition
        /\ targetScale' = st.targetScale
        /\ isFrozen' = st.isFrozen
        /\ rotation' = SmoothRotation(rotation, st.targetRotation,
                                      RotationTilt(m))
        /\ position' = SmoothPosition(position, st.targetPosition)
        /\ scale' = newScale
        /\ currentScale' = IF m = "solar"
                           THEN (newScale \div 20) * 7
                           ELSE currentScale
  /\ rendered' = rendered + 1
  /\ wasFrozen' = isFrozen
  /\ frames' = frames + 1
  /\ UNCHANGED <<modelType, gesture>>
  /\ UNCHANGED hookVars
  /\ UNCHANGED pageVars

SolarSystemUseFrame == UseFrame("solar")
CarModelUseFrame == UseFrame("car")
ChairModelUseFrame == UseFrame("chair")
InteractiveModelUseFrame == UseFrame("primitive")

\* The hook publishes a GestureState; the object is re-rendered with it and
\* the page's sound effect, which depends on gesture, is scheduled.
\* rendered and wasFrozen are history variables: they record what the last
\* frame ran on and are read by no action.
SetGesture(g) ==
  /\ gesture' = g
  /\ rendered' = 0
  /\ effectPending' = TRUE
  /\ UNCHANGED objectVars
  /\ UNCHANGED hookVars
  /\ UNCHANGED <<selected, prevGesture, lastPlayed, now, cued, played>>
  /\ UNCHANGED indicatorVars

Next ==
  \/ SolarSystemUseFrame
  \/ CarModelUseFrame
  \/ ChairModelUseFrame
  \/ InteractiveModelUseFrame
  \/ \E g \in GestureInputs : SetGesture(g)

Spec == Init /\ [][Next]_vars

(***************************************************************************)
(* An object that has been zoomed to, or one step short of, a limit of its *)
(* scale range and then left alone until the rendered transform settled.   *)
(* targetScale moves by 0.02 a frame from 1, so the limits are 35 to 100   *)
(* frames away from construction; these behaviours start there.            *)
(***************************************************************************)
ZoomedScales(m) ==
  {ScaleMin(m), ScaleMin(m) + ZoomStep, ScaleMax - ZoomStep, ScaleMax}

InitZoomed ==
  /\ modelType \in ModelTypes
  /\ gesture = NoHandGesture
  /\ rendered = 0
  /\ wasFrozen = FALSE
  /\ targetRotation = Zero2
  /\ targetPosition = Zero2
  /\ targetScale \in ZoomedScales(modelType)
  /\ isFrozen = FALSE
  /\ rotation = Vec(RotationTilt(modelType), 0)
  /\ position = Zero2
  /\ scale = targetScale
  /\ currentScale = IF modelType = "solar" THEN (targetScale \div 20) * 7 ELSE 0
  /\ frames = 0
  /\ HookInit
  /\ PageInit
  /\ selected = (IF modelType = "primitive" THEN "torus" ELSE modelType)

\* The GestureStates that matter to the scale: no hand, each zoom, fist,
\* reset, and reset or fist together with a zoom.
ZoomFlagSets ==
  {{"isZoomIn"}, {"isZoomOut"}, {"isFist"}, {"isReset"},
   {"isReset", "isZoomOut"}, {"isFist", "isZoomIn"}}

ZoomInputs ==
  {NoHandGesture}
  \cup { MkGesture(S, Some(PalmSeen), Zero2, Zero2) : S \in ZoomFlagSets }

NextZoomed ==
  \/ SolarSystemUseFrame
  \/ CarModelUseFrame
  \/ ChairModelUseFrame
  \/ InteractiveModelUseFrame
  \/ \E g \in ZoomInputs : SetGesture(g)

SpecZoomed == InitZoomed /\ [][NextZoomed]_vars

(***************************************************************************)
(* useHandTracking: landmarks.  A hand is the function handLandmarks from  *)
(* 0..20 to points, in hundredths: 0 the wrist, 1-4 the thumb, 5-8 the     *)
(* index, 9-12 the middle, 13-16 the ring and 17-20 the pinky finger, each *)
(* finger listed base (mcp), pip, dip, tip.                                *)
(***************************************************************************)
Plus(a, b) == Vec(a.x + b.x, a.y + b.y)

\* Offsets of the finger bases from the wrist.
IndexBase == Vec(-6, -20)
MiddleBase == Vec(-2, -22)
RingBase == Vec(2, -21)
PinkyBase == Vec(6, -18)

\* Finger poses: offsets of the pip joint and of the tip from the base.
\* Straight: the tip beyond the pip joint.  Hooked: the tip just short of
\* the pip joint but beyond 0.95 of its wrist distance.  Bent: the tip
\* beyond the base but within 0.95 of the pip distance.  Level: the tip on
\* the base, at exactly the base's wrist distance.  Curled: the tip nearer to
\* the wrist than the base.
Straight == [pip |-> Vec(0, -8), tip |-> Vec(0, -16)]
Hooked == [pip |-> Vec(0, -10), tip |-> Vec(0, -9)]
Bent == [pip |-> Vec(0, -10), tip |-> Vec(0, -1)]
Level == [pip |-> Vec(0, -1), tip |-> Vec(0, 0)]
Curled == [pip |-> Vec(0, -8), tip |-> Vec(0, 6)]
\* Grazing (for the index finger, whose base is (-6, -20) from the wrist):
\* pip joint and tip straight above the wrist at distances 0.40 and 0.38,
\* so the tip is at exactly 0.95 of the pip distance and beyond the base.
Grazing == [pip |-> Vec(6, -20), tip |-> Vec(6, -18)]

\* The index finger takes every pose, the other fingers the two plain ones.
IndexPoses == {Straight, Hooked, Bent, Level, Curled, Grazing}
MiddlePoses == {Straight, Curled}
RingPoses == {Straight, Curled}
PinkyPoses == {Straight, Curled}

\* Thumb tip, as an offset from the index base: 0.30 away, 0.13 away,
\* exactly 0.12 away, and tucked in.
ThumbTips == {Vec(-30, 0), Vec(-13, 0), Vec(-12, 0), Vec(-5, 3)}

\* Wrist positions in the image.
Wrists == {Vec(50, 80), Vec(55, 82)}

HandLandmarks(wrist, thumbTip, index, middle, ring, pinky) ==
  LET finger(base, pose, j) ==
        CASE j = 0 -> Plus(wrist, base)
          [] j = 1 -> Plus(Plus(wrist, base), pose.pip)
          [] j = 2 -> Plus(Plus(wrist, base), pose.pip)
          [] j = 3 -> Plus(Plus(wrist, base), pose.tip)
  IN [k \in 0..20 |->
        CASE k = 0 -> wrist
          [] k = 1 -> Plus(wrist, Vec(-8, -4))
          [] k = 2 -> Plus(wrist, Vec(-12, -10))
          [] k = 3 -> Plus(wrist, Vec(-14, -15))
          [] k = 4 -> Plus(Plus(wrist, IndexBase), thumbTip)
          [] k \in 5..8 -> finger(IndexBase, index, k - 5)
          [] k \in 9..12 -> finger(MiddleBase, middle, k - 9)
          [] k \in 13..16 -> finger(RingBase, ring, k - 13)
          [] k \in 17..20 -> finger(PinkyBase, pinky, k - 17)]

\* The hands the detector reports.
Hands ==
  { HandLandmarks(w, t, i, m, r, p) :
      w \in Wrists, t \in ThumbTips, i \in IndexPoses, m \in MiddlePoses,
      r \in RingPoses, p \in PinkyPoses }

(***************************************************************************)
(* useHandTracking: the classifier.  Distances are compared as squares,    *)
(* which orders them as Math.sqrt does.                                    *)
(***************************************************************************)
\* pipToWrist * 0.95, as 19/20.
ExtensionRatioNum == 19
ExtensionRatioDen == 20
\* thumbToIndexMcp > 0.12, in hundredths.
ThumbReach == 12

\* Squared distance of two landmarks, in hundredths squared.
Dist2(a, b) == (a.x - b.x) * (a.x - b.x) + (a.y - b.y) * (a.y - b.y)

\* Faulty variant of isFingerExtended: the tip must be beyond the pip joint.
isFingerExtendedBeyondPip(tip, pip, mcp, wrist) ==
  /\ Dist2(tip, wrist) > Dist2(pip, wrist)
  /\ Dist2(tip, wrist) > Dist2(mcp, wrist)

\* Faulty variant of isFingerExtended: a tip at exactly 0.95 of the pip
\* distance counts as extended.
isFingerExtendedAtRatio(tip, pip, mcp, wrist) ==
  /\ ExtensionRatioDen * ExtensionRatioDen * Dist2(tip, wrist)
       >= ExtensionRatioNum * ExtensionRatioNum * Dist2(pip, wrist)
  /\ Dist2(tip, wrist) > Dist2(mcp, wrist)

\* Faulty variant of isFingerExtended: the comparisons are not strict.
isFingerExtendedLoose(tip, pip, mcp, wrist) ==
  /\ ExtensionRatioDen * ExtensionRatioDen * Dist2(tip, wrist)
       >= ExtensionRatioNum * ExtensionRatioNum * Dist2(pip, wrist)
  /\ Dist2(tip, wrist) >= Dist2(mcp, wrist)

\* return tipToWrist > pipToWrist * 0.95 && tipToWrist > mcpToWrist;
isFingerExtended(tip, pip, mcp, wrist) ==
  /\ ExtensionRatioDen * ExtensionRatioDen * Dist2(tip, wrist)
       > ExtensionRatioNum * ExtensionRatioNum * Dist2(pip, wrist)
  /\ Dist2(tip, wrist) > Dist2(mcp, wrist)

\* Faulty variant of isThumbExtended: the distance is taken from the wrist.
isThumbExtendedFromWrist(thumbTip, thumbIp, thumbMcp, wrist, indexMcp) ==
  Dist2(thumbTip, wrist) > ThumbReach * ThumbReach

\* return thumbToIndexMcp > 0.12;
isThumbExtended(thumbTip, thumbIp, thumbMcp, wrist, indexMcp) ==
  Dist2(thumbTip, indexMcp) > ThumbReach * ThumbReach

\* The five extension tests of calculateGesture.
Extended(h) ==
  [thumb  |-> isThumbExtended(h[4], h[3], h[2], h[0], h[5]),
   index  |-> isFingerExtended(h[8], h[6], h[5], h[0]),
   middle |-> isFingerExtended(h[12], h[10], h[9], h[0]),
   ring   |-> isFingerExtended(h[16], h[14], h[13], h[0]),
   pinky  |-> isFingerExtended(h[20], h[18], h[17], h[0])]

extendedCount(e) ==
  Cardinality({f \in {"index", "middle", "ring", "pinky"} : e[f]})

isZoomIn(e) == e.thumb /\ e.index /\ ~e.middle /\ ~e.ring /\ ~e.pinky

\* Faulty variant of isZoomOut: the thumb is not asked for.
isZoomOutAnyThumb(e) == e.index /\ ~e.middle /\ ~e.ring /\ ~e.pinky

isZoomOut(e) == ~e.thumb /\ e.index /\ ~e.middle /\ ~e.ring /\ ~e.pinky

\* Faulty variant of isOpenHand: the thumb is not asked for.
isOpenHandAnyThumb(e) == extendedCount(e) >= 4

isOpenHand(e) == extendedCount(e) >= 4 /\ e.thumb

isFist(e) == extendedCount(e) = 0 /\ ~e.thumb

isPeace(e) == e.index /\ e.middle /\ ~e.ring /\ ~e.pinky /\ ~e.thumb

isReset(e) == e.thumb /\ e.pinky /\ ~e.index /\ ~e.middle /\ ~e.ring

\* palmX, palmY: the mean of the wrist and the index, middle and pinky
\* bases, in fixed point.
palmPosition(h) ==
  Vec(((h[0].x + h[5].x + h[9].x + h[17].x) * Hundredth) \div 4,
      ((h[0].y + h[5].y + h[9].y + h[17].y) * Hundredth) \div 4)

\* Faulty variant of rotationDelta: the axes are not swapped.
rotationDeltaUnswapped(prev, palm, open) ==
  IF prev # Null /\ open
  THEN Vec((palm.x - prev[1].x) * 3, (palm.y - prev[1].y) * 3)
  ELSE Zero2

\* if (prevPalmPosition.current && isOpenHand) rotation = {x: deltaY, y: -deltaX}
rotationDelta(prev, palm, open) ==
  IF prev # Null /\ open
  THEN Vec((palm.y - prev[1].y) * 3, -((palm.x - prev[1].x) * 3))
  ELSE Zero2

\* Faulty variant of positionDelta: the rotation multiplier is used.
positionDeltaTimesThree(prev, palm, peace) ==
  IF prev # Null /\ peace
  THEN Vec(-((palm.x - prev[1].x) * 3), -((palm.y - prev[1].y) * 3))
  ELSE Zero2

\* if (prevPalmPosition.current && isPeace) position = {x: -deltaX, y: -deltaY}
positionDelta(prev, palm, peace) ==
  IF prev # Null /\ peace
  THEN Vec(-((palm.x - prev[1].x) * 5), -((palm.y - prev[1].y) * 5))
  ELSE Zero2

\* Faulty variant of storedPalm: the ref is written once and then kept.
storedPalmFirstOnly(prev, palm) == IF prev = Null THEN Some(palm) ELSE prev

\* prevPalmPosition.current = palmPosition;
storedPalm(prev, palm) == Some(palm)

\* calculateGesture(handLandmarks) with prevPalmPosition.current = prev: the
\* GestureState it returns and the value it leaves in the ref.
calculateGesture(h, prev) ==
  LET e == Extended(h)
      palm == palmPosition(h)
  IN [published |->
        [isZoomIn     |-> isZoomIn(e),
         isZoomOut    |-> isZoomOut(e),
         isOpenHand   |-> isOpenHand(e),
         isFist       |-> isFist(e),
         isPeace      |-> isPeace(e),
         isReset      |-> isReset(e),
         palmPosition |-> Some(palm),
         rotation     |-> rotationDelta(prev, palm, isOpenHand(e)),
         position     |-> positionDelta(prev, palm, isPeace(e))],
      stored |-> storedPalm(prev, palm)]

\* Faulty variant of handAbsent: the last palm position stays published.
handAbsentStalePalm(prev) ==
  [published |-> MkGesture({}, prev, Zero2, Zero2), stored |-> prev]

\* Faulty variant of handAbsent: the previous palm position is dropped.
handAbsentForgets(prev) ==
  [published |-> MkGesture({}, Null, Zero2, Zero2), stored |-> Null]

\* The else branch of processResults: the neutral GestureState is published
\* and prevPalmPosition is not written.
handAbsent(prev) ==
  [published |-> MkGesture({}, Null, Zero2, Zero2), stored |-> prev]

\* Faulty variant of GestureIndicator: the checks in the overlay's order.
GestureIndicatorOverlayOrder(g, tracking) ==
  IF ~tracking THEN "none"
  ELSE IF g.isZoomIn THEN "ZOOM IN"
  ELSE IF g.isZoomOut THEN "ZOOM OUT"
  ELSE IF g.isFist THEN "FREEZE"
  ELSE IF g.isPeace THEN "POSITION"
  ELSE IF g.isReset THEN "RESET"
  ELSE IF g.isOpenHand THEN "ROTATE"
  ELSE "none"

\* GestureIndicator: the label shown, "none" when the component returns
\* null.
GestureIndicator(g, tracking) ==
  IF ~tracking THEN "none"
  ELSE IF g.isZoomIn THEN "ZOOM IN"
  ELSE IF g.isZoomOut THEN "ZOOM OUT"
  ELSE IF g.isPeace THEN "POSITION"
  ELSE IF g.isOpenHand THEN "ROTATE"
  ELSE IF g.isFist THEN "FREEZE"
  ELSE IF g.isReset THEN "RESET"
  ELSE "none"

\* drawEnhancedLandmarks: the flag whose branch sets the overlay's colours,
\* "none" when no branch is taken and the initial colours stand.
overlayGesture(g) ==
  IF g.isZoomIn THEN "isZoomIn"
  ELSE IF g.isZoomOut THEN "isZoomOut"
  ELSE IF g.isFist THEN "isFist"
  ELSE IF g.isPeace THEN "isPeace"
  ELSE IF g.isReset THEN "isReset"
  ELSE IF g.isOpenHand THEN "isOpenHand"
  ELSE "none"

\* processResults(results); results is results.landmarks, a sequence of at
\* most one hand.  canvasRef and its 2d context exist while tracking runs
\* (startTracking requires the canvas), so both guards are passed.
\* palmBefore and handBefore are history variables, read by no action:
\* handBefore is computed from the landmarks of the result being replaced,
\* not from the ref.
processResults(results) ==
  /\ LET c == IF Len(results) > 0
              THEN calculateGesture(results[1], prevPalmPosition)
              ELSE handAbsent(prevPalmPosition)
     IN /\ landmarks' = IF Len(results) > 0 THEN Some(results[1]) ELSE Null
        /\ gesture' = c.published
        /\ prevPalmPosition' = c.stored
        /\ overlay' = IF Len(results) > 0
                       THEN overlayGesture(c.published)
                       ELSE "none"
        /\ indicator' = GestureIndicator(c.published, isTracking)
  /\ palmBefore' = prevPalmPosition
  /\ handBefore' = IF landmarks # Null
                   THEN Some(palmPosition(landmarks[1]))
                   ELSE handBefore
  /\ rendered' = 0
  /\ effectPending' = TRUE
  /\ UNCHANGED objectVars
  /\ UNCHANGED <<selected, isTracking, prevGesture, lastPlayed, now, cued,
                 played>>
  /\ UNCHANGED trackingVars

\* A startTracking call that runs to its end with no other step in between,
\* followed by the page's render: the model is loaded, the camera plays,
\* setIsTracking(true), and the detection loop starts.
startTracking ==
  /\ timer # Null
  /\ ~timer[1].isTracking /\ ~timer[1].isLoading
  /\ loadingModel = 0 /\ openingCamera = 0
  /\ isTracking' = TRUE
  /\ isLoading' = FALSE
  /\ handLandmarkerRef' = Some("landmarker")
  /\ stream' = TRUE
  /\ chains' = chains + 1
  /\ closure' = Closure(TRUE, FALSE)
  /\ timer' = Some(Closure(TRUE, FALSE))
  /\ stopped' = FALSE
  /\ startedOnce' = TRUE
  /\ lastStart' = "started"
  /\ indicator' = GestureIndicator(gesture, TRUE)
  /\ UNCHANGED <<gesture, rendered, overlay, selected, loadingModel,
                 openingCamera>>
  /\ UNCHANGED <<landmarks, prevPalmPosition, palmBefore, handBefore>>
  /\ UNCHANGED objectVars
  /\ UNCHANGED soundVars

\* detectHands, one animation frame of a running chain: a detection result
\* is processed if the video plays and the landmarker exists.
detectHands(results) ==
  /\ chains > 0
  /\ stream
  /\ handLandmarkerRef # Null
  /\ processResults(results)

HandDetected == \E h \in Hands : detectHands(<<h>>)
HandLost == detectHands(<<>>)

\* The page starts on the solar system.
InitHandTracking == Init /\ modelType = "solar"

NextHandTracking == startTracking \/ HandDetected \/ HandLost

SpecHandTracking == InitHandTracking /\ [][NextHandTracking]_vars

(***************************************************************************)
(* useHandTracking: starting and stopping.  startTracking is an async      *)
(* function: between its awaits (the model, then the camera) the timer,    *)
(* renders, stopTracking and animation frames can run.  The wait for the   *)
(* camera covers getUserMedia up to the video's loadedmetadata event.      *)
(***************************************************************************)
\* Faulty variant of alreadyStarted: only isLoading is tested.
alreadyStartedLoadingOnly(c) == c.isLoading

\* if (isTracking || isLoading) return;  on the values the callback captured.
alreadyStarted(c) == c.isTracking \/ c.isLoading

\* What the lifecycle steps leave alone.
QuietPage ==
  /\ UNCHANGED <<gesture, rendered, selected, overlay>>
  /\ UNCHANGED <<prevPalmPosition, palmBefore, handBefore>>
  /\ UNCHANGED objectVars
  /\ UNCHANGED soundVars

\* The auto-start timer fires and calls the startTracking it was armed
\* with: the call returns at the guard, or sets isLoading and starts to load
\* the model.  The video and canvas refs are set by then.
TimerFires ==
  /\ timer # Null
  /\ timer' = Null
  /\ stopped' = FALSE
  /\ IF alreadyStarted(timer[1])
     THEN /\ lastStart' = "returned"
          /\ UNCHANGED <<isLoading, loadingModel>>
     ELSE /\ isLoading' = TRUE
          /\ loadingModel' = loadingModel + 1
          /\ lastStart' = "pending"
  /\ UNCHANGED <<handLandmarkerRef, stream, openingCamera, chains, closure,
                 startedOnce, isTracking, indicator, landmarks>>
  /\ QuietPage

\* A render after isTracking or isLoading changed: startTracking gets a new
\* identity, so the auto-start effect clears its timer and arms a new one;
\* the indicator is rendered with the new isTracking.
Render ==
  /\ closure # Closure(isTracking, isLoading)
  /\ closure' = Closure(isTracking, isLoading)
  /\ timer' = Some(Closure(isTracking, isLoading))
  /\ indicator' = GestureIndicator(gesture, isTracking)
  /\ UNCHANGED <<isLoading, handLandmarkerRef, stream, loadingModel,
                 openingCamera, chains, stopped, startedOnce, lastStart,
                 isTracking, landmarks>>
  /\ QuietPage

\* HandLandmarker.createFromOptions resolved: handLandmarkerRef.current is
\* set and the call goes on to the camera.
ModelLoaded ==
  /\ loadingModel > 0
  /\ loadingModel' = loadingModel - 1
  /\ openingCamera' = openingCamera + 1
  /\ handLandmarkerRef' = Some("landmarker")
  /\ UNCHANGED <<isLoading, stream, chains, closure, timer, stopped,
                 startedOnce, lastStart, isTracking, indicator, landmarks>>
  /\ QuietPage

\* Faulty variant of ModelFailed: the catch block does not clear isLoading.
ModelFailedStillLoading ==
  /\ loadingModel > 0
  /\ loadingModel' = loadingModel - 1
  /\ lastStart' = "failed"
  /\ UNCHANGED <<isLoading, handLandmarkerRef, stream, openingCamera, chains,
                 closure, timer, stopped, startedOnce, isTracking, indicator,
                 landmarks>>
  /\ QuietPage

\* Loading the model threw: catch logs the error and setIsLoading(false).
ModelFailed ==
  /\ loadingModel > 0
  /\ loadingModel' = loadingModel - 1
  /\ isLoading' = FALSE
  /\ lastStart' = "failed"
  /\ UNCHANGED <<handLandmarkerRef, stream, openingCamera, chains, closure,
                 timer, stopped, startedOnce, isTracking, indicator,
                 landmarks>>
  /\ QuietPage

\* The camera stream plays: setIsTracking(true), setIsLoading(false),
\* detectHands() starts a requestAnimationFrame chain.
CameraReady ==
  /\ openingCamera > 0
  /\ openingCamera' = openingCamera - 1
  /\ stream' = TRUE
  /\ isTracking' = TRUE
  /\ isLoading' = FALSE
  /\ chains' = chains + 1
  /\ startedOnce' = TRUE
  /\ lastStart' = "started"
  /\ UNCHANGED <<handLandmarkerRef, loadingModel, closure, timer, stopped,
                 indicator, landmarks>>
  /\ QuietPage

\* getUserMedia threw: catch logs the error and setIsLoading(false); the
\* landmarker that was loaded stays in its ref.
CameraFailed ==
  /\ openingCamera > 0
  /\ openingCamera' = openingCamera - 1
  /\ isLoading' = FALSE
  /\ lastStart' = "failed"
  /\ UNCHANGED <<handLandmarkerRef, stream, loadingModel, chains, closure,
                 timer, stopped, startedOnce, isTracking, indicator,
                 landmarks>>
  /\ QuietPage

\* stopTracking: the animation frame whose id is stored is cancelled, the
\* camera tracks are stopped, the landmarker is closed and its ref cleared,
\* setIsTracking(false), setLandmarks(null).
stopTracking ==
  /\ chains' = IF chains > 0 THEN chains - 1 ELSE 0
  /\ stream' = FALSE
  /\ handLandmarkerRef' = Null
  /\ isTracking' = FALSE
  /\ landmarks' = Null
  /\ stopped' = TRUE
  /\ UNCHANGED <<isLoading, loadingModel, openingCamera, closure, timer,
                 startedOnce, lastStart, indicator>>
  /\ QuietPage

\* The detection results of the lifecycle: no hand, a fist, an open hand.
FistHand ==
  HandLandmarks(Vec(50, 80), Vec(-5, 3), Curled, Curled, Curled, Curled)
OpenHand ==
  HandLandmarks(Vec(55, 82), Vec(-30, 0), Straight, Straight, Straight,
                Straight)
LifecycleResults == {<<>>, <<FistHand>>, <<OpenHand>>}

FrameDetected == \E results \in LifecycleResults : detectHands(results)

NextLifecycle ==
  \/ TimerFires
  \/ Render
  \/ ModelLoaded
  \/ ModelFailed
  \/ CameraReady
  \/ CameraFailed
  \/ stopTracking
  \/ FrameDetected

SpecLifecycle == InitHandTracking /\ [][NextLifecycle]_vars

(***************************************************************************)
(* The page: audio cues (useSoundEffects and the page's gesture effect).   *)
(***************************************************************************)
\* playSound(type, debounceMs = 500); rotate and move are called with 1000.
DefaultDebounce == 500
SlowDebounce == 1000

\* Faulty variant of playSound: a suppressed call still stamps the time.
playSoundStamps(lp, t, type, debounceMs) ==
  [lastPlayed |-> [lp EXCEPT ![type] = t],
   played |-> ~(t - lp[type] < debounceMs)]

\* playSound at time t with lastPlayed.current = lp: the new lastPlayed and
\* whether the sound was played.  The audio elements are created by the
\* hook's mount effect, which runs before any caller, so audio is never null.
playSound(lp, t, type, debounceMs) ==
  IF t - lp[type] < debounceMs
  THEN [lastPlayed |-> lp, played |-> FALSE]
  ELSE [lastPlayed |-> [lp EXCEPT ![type] = t], played |-> TRUE]

\* The six tests of the gesture effect, in source order.
Cues ==
  << [flag |-> "isZoomIn",   type |-> "zoom",   debounce |-> DefaultDebounce],
     [flag |-> "isZoomOut",  type |-> "zoom",   debounce |-> DefaultDebounce],
     [flag |-> "isOpenHand", type |-> "rotate", debounce |-> SlowDebounce],
     [flag |-> "isPeace",    type |-> "move",   debounce |-> SlowDebounce],
     [flag |-> "isFist",     type |-> "freeze", debounce |-> DefaultDebounce],
     [flag |-> "isReset",    type |-> "reset",  debounce |-> DefaultDebounce] >>

\* Faulty variant of risingEdge: the cue follows the level of the flag.
risingEdgeLevel(prev, cur, flag) == cur[flag]

\* !prev.flag && gesture.flag
risingEdge(prev, cur, flag) == ~prev[flag] /\ cur[flag]

\* The tests from the i-th on, run at time t on acc = [lastPlayed, cued,
\* played].
RECURSIVE RunCues(_, _, _, _, _)
RunCues(i, prev, cur, t, acc) ==
  IF i > Len(Cues) THEN acc
  ELSE IF risingEdge(prev, cur, Cues[i].flag)
       THEN LET r == playSound(acc.lastPlayed, t, Cues[i].type,
                               Cues[i].debounce)
            IN RunCues(i + 1, prev, cur, t,
                       [lastPlayed |-> r.lastPlayed,
                        cued |-> acc.cued \cup {Cues[i].flag},
                        played |-> IF r.played
                                   THEN Append(acc.played, Cues[i].type)
                                   ELSE acc.played])
       ELSE RunCues(i + 1, prev, cur, t, acc)

\* The page's effect on [gesture, playSound].  Its first run only stores the
\* gesture.
GestureSoundEffect ==
  /\ effectPending
  /\ effectPending' = FALSE
  /\ prevGesture' = Some(gesture)
  /\ LET r == IF prevGesture = Null
              THEN [lastPlayed |-> lastPlayed, cued |-> {}, played |-> <<>>]
              ELSE RunCues(1, prevGesture[1], gesture, now,
                           [lastPlayed |-> lastPlayed, cued |-> {},
                            played |-> <<>>])
     IN /\ lastPlayed' = r.lastPlayed
        /\ cued' = r.cued
        /\ played' = r.played
  /\ UNCHANGED <<gesture, rendered, now, selected>>
  /\ UNCHANGED objectVars
  /\ UNCHANGED hookVars
  /\ UNCHANGED indicatorVars

\* Time passes.
Tick ==
  /\ now < StartTime + MaxTicks * TickMs
  /\ now' = now + TickMs
  /\ UNCHANGED <<gesture, rendered, selected, prevGesture, effectPending,
                 lastPlayed, cued, played>>
  /\ UNCHANGED objectVars
  /\ UNCHANGED hookVars
  /\ UNCHANGED indicatorVars

\* handleModelChange(type): playSound('select'); setModelType(type).
\* Scene3D then renders the component of the new type: a different
\* component is mounted with new refs and a new transform; the same
\* component (InteractiveModel for every shape, rendered without a key)
\* stays mounted and keeps its refs and its transform.
handleModelChange(type) ==
  /\ LET r == playSound(lastPlayed, now, "select", DefaultDebounce)
     IN /\ lastPlayed' = r.lastPlayed
        /\ played' = IF r.played THEN <<"select">> ELSE <<>>
  /\ selected' = type
  /\ modelType' = ComponentOf(type)
  /\ IF ComponentOf(type) = modelType
     THEN UNCHANGED <<targetRotation, targetPosition, targetScale, isFrozen,
                      rotation, position, scale, currentScale, rendered,
                      wasFrozen>>
     ELSE /\ targetRotation' = Zero2
          /\ targetPosition' = Zero2
          /\ targetScale' = One
          /\ isFrozen' = FALSE
          /\ rotation' = Zero2
          /\ position' = Zero2
          /\ scale' = InitialScale(ComponentOf(type))
          /\ currentScale' = IF type = "solar" THEN 35 * Hundredth ELSE 0
          /\ rendered' = 0
          /\ wasFrozen' = FALSE
  /\ UNCHANGED <<gesture, frames, prevGesture, effectPending, now, cued>>
  /\ UNCHANGED hookVars
  /\ UNCHANGED indicatorVars

\* The GestureStates of the sound behaviours: no hand and each flag alone.
SoundFlagSets == {{}} \cup {{f} : f \in GestureFlags}

SoundInputs ==
  { MkGesture(S, IF S = {} THEN Null ELSE Some(PalmSeen), Zero2, Zero2) :
      S \in SoundFlagSets }

\* React commits one render per published gesture and runs the pending
\* effect before the next one, so a gesture is published only when no
\* effect is pending.
GestureUpdate == \E g \in SoundInputs : ~effectPending /\ SetGesture(g)

NextSound == GestureUpdate \/ GestureSoundEffect \/ Tick

InitSound == Init /\ modelType = "solar"

SpecSound == InitSound /\ [][NextSound]_vars

(***************************************************************************)
(* The page: model selection.  Frames run on the selected object, the hook *)
(* publishes gestures and the user picks model types; the clock stands     *)
(* still, which matters to the select sound only.                          *)
(***************************************************************************)
SelectFlagSets == {{"isOpenHand"}, {"isZoomIn"}, {"isFist"}}

SelectInputs ==
  {NoHandGesture}
  \cup { MkGesture(S, Some(PalmSeen), MovingRotation, Zero2) :
           S \in SelectFlagSets }

ModelChange == \E type \in PageModelTypes : handleModelChange(type)

NextSelect ==
  \/ SolarSystemUseFrame
  \/ CarModelUseFrame
  \/ ChairModelUseFrame
  \/ InteractiveModelUseFrame
  \/ \E g \in SelectInputs : SetGesture(g)
  \/ ModelChange

InitSelect == Init /\ modelType = "solar"

SpecSelect == InitSelect /\ [][NextSelect]_vars

(***************************************************************************)
(* Vocabulary of the properties.                                           *)
(***************************************************************************)
\* A step that is one useFrame call.
FrameStep == frames' = frames + 1

\* One of the five flags that release a freeze is true.
AnyRelease(g) ==
  g.isOpenHand \/ g.isZoomIn \/ g.isZoomOut \/ g.isPeace \/ g.isReset

\* One of the four flags that move a target is true.
AnyUpdate(g) == g.isOpenHand \/ g.isPeace \/ g.isZoomIn \/ g.isZoomOut

targets == <<targetRotation, targetPosition, targetScale>>

Abs(n) == IF n < 0 THEN -n ELSE n

\* The gesture in the state is the one the last frame ran on.
AfterFrame == rendered >= 1

\* new = cur + (target - cur) * num / 20, and the rate limit it implies:
\* |new - cur| <= num / 20 * |target - cur|.
Smoothed(cur, new, target, num) ==
  /\ new = cur + ((target - cur) * num) \div 20
  /\ Abs(new - cur) * 20 <= num * Abs(target - cur)

(***************************************************************************)
(* C1  Frozen persistence: once isFrozen is true it stays true over every  *)
(* step except a frame whose GestureState has one of open-hand, zoom-in,   *)
(* zoom-out, peace, reset true; frames with no flag or with only isFist    *)
(* never unfreeze.                                                         *)
(***************************************************************************)
C1_FrozenPersistence ==
  [][(isFrozen /\ ~(FrameStep /\ AnyRelease(gesture))) => isFrozen']_vars

\* A frame with no flag true ran on a frozen object and left it frozen.
C1_Witness ==
  AfterFrame /\ wasFrozen /\ isFrozen /\ FlagsOf(gesture) = {} /\ frames >= 2

(***************************************************************************)
(* C2  Freeze locks the targets: over every step that starts and ends      *)
(* Frozen, targetRotation, targetPosition and targetScale are unchanged,   *)
(* whatever deltas the GestureState carries.                               *)
(***************************************************************************)
C2_FreezeLocksTargets ==
  [][(isFrozen /\ isFrozen') => UNCHANGED targets]_vars

\* A frame carrying non-zero deltas ran on an object frozen away from its
\* initial targets.
C2_Witness ==
  /\ AfterFrame /\ wasFrozen /\ isFrozen
  /\ gesture.rotation # Zero2 /\ gesture.position # Zero2
  /\ targetPosition # Zero2

(***************************************************************************)
(* C3  Unfreeze trigger, as stated: a frame that starts Frozen with one of *)
(* open-hand, zoom-in, zoom-out, peace, reset true ends Active; a frame    *)
(* whose only true flag is isFist stays Frozen.                            *)
(***************************************************************************)
C3_Original ==
  (AfterFrame /\ wasFrozen) =>
    /\ AnyRelease(gesture) => ~isFrozen
    /\ FlagsOf(gesture) = {"isFist"} => isFrozen

(***************************************************************************)
(* C3  Unfreeze trigger, amended: a frame that starts Frozen with one of   *)
(* the five flags true, and with isFist false or isReset true, ends        *)
(* Active; a frame whose only true flag is isFist stays Frozen.            *)
(***************************************************************************)
C3_UnfreezeTrigger ==
  (AfterFrame /\ wasFrozen) =>
    /\ (AnyRelease(gesture) /\ (~gesture.isFist \/ gesture.isReset))
         => ~isFrozen
    /\ FlagsOf(gesture) = {"isFist"} => isFrozen

\* A zoom-out frame released a frozen object.
C3_Witness ==
  AfterFrame /\ wasFrozen /\ ~isFrozen /\ FlagsOf(gesture) = {"isZoomOut"}

(***************************************************************************)
(* C4  Freeze entry, as stated: from Active a frame with isFist and not    *)
(* isReset ends Frozen, and from Frozen a frame with isFist ends Frozen.   *)
(***************************************************************************)
C4_Original ==
  AfterFrame =>
    /\ (~wasFrozen /\ gesture.isFist /\ ~gesture.isReset) => isFrozen
    /\ (wasFrozen /\ gesture.isFist) => isFrozen

(***************************************************************************)
(* C4  Freeze entry, amended: a frame with isFist and not isReset ends     *)
(* Frozen, from Active and from Frozen.                                    *)
(***************************************************************************)
C4_FreezeEntry ==
  AfterFrame =>
    /\ (~wasFrozen /\ gesture.isFist /\ ~gesture.isReset) => isFrozen
    /\ (wasFrozen /\ gesture.isFist /\ ~gesture.isReset) => isFrozen

\* A frame with isFist and isPeace froze an Active object.
C4_Witness ==
  /\ AfterFrame /\ ~wasFrozen /\ isFrozen
  /\ FlagsOf(gesture) = {"isFist", "isPeace"}

(***************************************************************************)
(* C5  Reset dominance: a frame with isReset true, isFist true or false    *)
(* and the four other flags false ends with targetRotation (0,0),          *)
(* targetPosition (0,0), targetScale 1 and isFrozen false.                 *)
(***************************************************************************)
C5_ResetDominance ==
  (AfterFrame /\ gesture.isReset /\ ~AnyUpdate(gesture)) =>
    /\ targetRotation = Zero2
    /\ targetPosition = Zero2
    /\ targetScale = One
    /\ ~isFrozen

\* A frame with isReset and isFist ran on a frozen object.
C5_Witness ==
  /\ AfterFrame /\ wasFrozen /\ ~isFrozen
  /\ FlagsOf(gesture) = {"isReset", "isFist"}

(***************************************************************************)
(* C6  Idempotence on neutral input: a frame whose six flags are all false *)
(* changes none of targetRotation, targetPosition, targetScale, isFrozen.  *)
(***************************************************************************)
C6_NeutralFrame ==
  [][(FrameStep /\ FlagsOf(gesture) = {})
       => (UNCHANGED targets /\ UNCHANGED isFrozen)]_vars

\* A flagless frame carrying deltas ran on an Active object whose position
\* is still converging to a moved target.
C6_Witness ==
  /\ AfterFrame /\ ~wasFrozen /\ FlagsOf(gesture) = {}
  /\ gesture.rotation # Zero2
  /\ targetPosition # Zero2 /\ position # targetPosition

C8_Original ==
  [][(FrameStep /\ AfterFrame) => UNCHANGED targets]_vars

(***************************************************************************)
(* C8  Idempotence on unchanged input, amended: such a frame leaves the    *)
(* targets unchanged when none of open-hand, peace, zoom-in, zoom-out is   *)
(* true in the GestureState or when the frame ends Frozen.                 *)
(***************************************************************************)
C8_UnchangedInput ==
  [][(FrameStep /\ AfterFrame /\ (isFrozen' \/ ~AnyUpdate(gesture)))
       => UNCHANGED targets]_vars

\* The reset gesture was rendered twice in a row after another frame.
C8_Witness ==
  rendered >= 2 /\ frames >= 3 /\ FlagsOf(gesture) = {"isReset"}

C11_ScaleRange ==
  /\ ScaleMin(modelType) <= targetScale
  /\ targetScale <= ScaleMax

\* Two zoom-out frames have run and the solar system's scale sits on its
\* lower limit: in the last one 0.2 - 0.02 was clamped.
C11_Witness ==
  /\ modelType = "solar"
  /\ rendered >= 2
  /\ gesture.isZoomOut /\ ~gesture.isZoomIn /\ ~gesture.isReset
  /\ ~isFrozen
  /\ targetScale = 20 * Hundredth

(***************************************************************************)
(* The indicator and the overlay as functions of the GestureState.         *)
(***************************************************************************)
\* Every combination of the six flags on a hand in view, and no hand.
IndicatorInputs ==
  {NoHandGesture}
  \cup { MkGesture(S, Some(PalmSeen), Zero2, Zero2) : S \in SUBSET GestureFlags }

\* A page holding any GestureState, tracking on or off, with the indicator
\* not yet rendered and the overlay not yet drawn for it.
InitIndicator ==
  /\ modelType = "solar"
  /\ gesture \in IndicatorInputs
  /\ rendered = 0
  /\ wasFrozen = FALSE
  /\ targetRotation = Zero2
  /\ targetPosition = Zero2
  /\ targetScale = One
  /\ isFrozen = FALSE
  /\ rotation = Zero2
  /\ position = Zero2
  /\ scale = InitialScale(modelType)
  /\ currentScale = 35 * Hundredth
  /\ frames = 0
  /\ HookInit
  /\ selected = "solar"
  /\ isTracking \in BOOLEAN
  /\ prevGesture = Null
  /\ effectPending = TRUE
  /\ lastPlayed = [t \in SoundTypes |-> 0]
  /\ now = StartTime
  /\ cued = {}
  /\ played = <<>>
  /\ indicator = "unrendered"
  /\ overlay = "undrawn"

\* The page renders <GestureIndicator gesture isTracking />.
RenderIndicator ==
  /\ indicator = "unrendered"
  /\ indicator' = GestureIndicator(gesture, isTracking)
  /\ UNCHANGED <<gesture, rendered, selected, isTracking, overlay>>
  /\ UNCHANGED objectVars
  /\ UNCHANGED hookVars
  /\ UNCHANGED soundVars

\* processResults draws the overlay of a hand in the colours of its
\* GestureState.
DrawOverlay ==
  /\ overlay = "undrawn"
  /\ gesture.palmPosition # Null
  /\ overlay' = overlayGesture(gesture)
  /\ UNCHANGED <<gesture, rendered, selected, isTracking, indicator>>
  /\ UNCHANGED objectVars
  /\ UNCHANGED hookVars
  /\ UNCHANGED soundVars

NextIndicator == RenderIndicator \/ DrawOverlay

SpecIndicator == InitIndicator /\ [][NextIndicator]_vars

(***************************************************************************)
(* Vocabulary of the hook's properties.                                    *)
(***************************************************************************)
\* The last detection result held a hand; hand is that hand.
HandSeen == landmarks # Null
hand == landmarks[1]

\* The mean of the wrist and the index, middle, ring and pinky bases.
FivePointMean(h) ==
  Vec(((h[0].x + h[5].x + h[9].x + h[13].x + h[17].x) * Hundredth) \div 5,
      ((h[0].y + h[5].y + h[9].y + h[13].y + h[17].y) * Hundredth) \div 5)

\* tip, pip and mcp index of the four non-thumb fingers.
Fingers == {<<8, 6, 5>>, <<12, 10, 9>>, <<16, 14, 13>>, <<20, 18, 17>>}

\* C12: whenever the detector reports no hand, the published GestureState
\* has all six flags false, a null palmPosition and zero rotation and
\* position deltas, whatever came before and for every consecutive no-hand
\* frame.
C12_NoHandNeutral ==
  ~HandSeen =>
    /\ ~gesture.isZoomIn /\ ~gesture.isZoomOut /\ ~gesture.isOpenHand
    /\ ~gesture.isFist /\ ~gesture.isPeace /\ ~gesture.isReset
    /\ gesture.palmPosition = Null
    /\ gesture.rotation = Zero2
    /\ gesture.position = Zero2

\* The hand was lost after at least two results with a hand.
C12_Witness ==
  /\ ~HandSeen
  /\ prevPalmPosition # Null
  /\ handBefore # Null
  /\ gesture.palmPosition = Null

\* C13: a no-hand frame does not modify the stored previous palm position:
\* after it the ref still holds the palm of the last hand seen, and the
\* next hand frame computes its deltas against that palm.
C13_NoHandKeepsPrevious ==
  /\ ~HandSeen => prevPalmPosition = handBefore
  /\ HandSeen /\ handBefore # Null =>
       LET palm == gesture.palmPosition[1]
           last == handBefore[1]
       IN /\ gesture.isOpenHand =>
               gesture.rotation =
                 Vec((palm.y - last.y) * 3, -((palm.x - last.x) * 3))
          /\ gesture.isPeace =>
               gesture.position =
                 Vec(-((palm.x - last.x) * 5), -((palm.y - last.y) * 5))

\* No hand in the last result, and the ref still holds a palm position.
C13_Witness ==
  /\ ~HandSeen
  /\ prevPalmPosition # Null
  /\ prevPalmPosition = palmBefore
  /\ gesture = NoHandGesture

\* C14, as stated: the published palmPosition is the arithmetic mean of the
\* five points wrist, index base, middle base, ring base and pinky base.
C14_Original ==
  HandSeen => gesture.palmPosition = Some(FivePointMean(hand))

\* C15: for every combination of the five extension booleans the flags are
\* zoom-in = thumb and index only; zoom-out = index only; open-hand = all
\* five; fist = none; peace = index and middle only; reset = thumb and
\* pinky only.
C15_GestureTable ==
  HandSeen =>
    LET T == Extended(hand).thumb
        I == Extended(hand).index
        M == Extended(hand).middle
        R == Extended(hand).ring
        P == Extended(hand).pinky
    IN /\ gesture.isZoomIn = (T /\ I /\ ~M /\ ~R /\ ~P)
       /\ gesture.isZoomOut = (~T /\ I /\ ~M /\ ~R /\ ~P)
       /\ gesture.isOpenHand = (T /\ I /\ M /\ R /\ P)
       /\ gesture.isFist = (~T /\ ~I /\ ~M /\ ~R /\ ~P)
       /\ gesture.isPeace = (~T /\ I /\ M /\ ~R /\ ~P)
       /\ gesture.isReset = (T /\ ~I /\ ~M /\ ~R /\ P)

\* All four non-thumb fingers are extended and the thumb is not: no row of
\* the table applies and no flag is set.
C15_Witness ==
  /\ HandSeen
  /\ ~Extended(hand).thumb
  /\ Extended(hand).index /\ Extended(hand).middle
  /\ Extended(hand).ring /\ Extended(hand).pinky
  /\ FlagsOf(gesture) = {}

\* C16: when each non-thumb fingertip is farther from the wrist than 0.95
\* times its pip joint and farther than its base, and the thumb tip is more
\* than 0.12 from the index base, isOpenHand is true and the other five
\* flags are false.
C16_OpenHand ==
  HandSeen /\ (\A f \in Fingers :
                  /\ 400 * Dist2(hand[f[1]], hand[0])
                       > 361 * Dist2(hand[f[2]], hand[0])
                  /\ Dist2(hand[f[1]], hand[0]) > Dist2(hand[f[3]], hand[0]))
           /\ Dist2(hand[4], hand[5]) > 144
    => FlagsOf(gesture) = {"isOpenHand"}

\* An open hand whose index tip is nearer to the wrist than its pip joint,
\* inside the 0.95 margin.
C16_Witness ==
  /\ HandSeen
  /\ gesture.isOpenHand
  /\ Dist2(hand[8], hand[0]) < Dist2(hand[6], hand[0])
  /\ 400 * Dist2(hand[8], hand[0]) > 361 * Dist2(hand[6], hand[0])

\* C17: when each non-thumb fingertip is no farther from the wrist than its
\* pip joint and than its base, and the thumb tip is within 0.12 of the
\* index base, isFist is true and the other five flags are false.
C17_Fist ==
  HandSeen /\ (\A f \in Fingers :
                  /\ Dist2(hand[f[1]], hand[0]) <= Dist2(hand[f[2]], hand[0])
                  /\ Dist2(hand[f[1]], hand[0]) <= Dist2(hand[f[3]], hand[0]))
           /\ Dist2(hand[4], hand[5]) <= 144
    => FlagsOf(gesture) = {"isFist"}

\* A fist at the limits: the index tip exactly as far from the wrist as its
\* base and the thumb tip exactly 0.12 from the index base.
C17_Witness ==
  /\ HandSeen
  /\ gesture.isFist
  /\ Dist2(hand[8], hand[0]) = Dist2(hand[5], hand[0])
  /\ Dist2(hand[4], hand[5]) = 144

\* C18: the published rotation delta is ((palm.y - prev.y) * 3,
\* -(palm.x - prev.x) * 3) when the frame is open-hand and a previous palm
\* position exists, and exactly (0, 0) otherwise.
C18_RotationDelta ==
  HandSeen =>
    gesture.rotation =
      IF gesture.isOpenHand /\ palmBefore # Null
      THEN Vec((gesture.palmPosition[1].y - palmBefore[1].y) * 3,
               -((gesture.palmPosition[1].x - palmBefore[1].x) * 3))
      ELSE Zero2

\* An open hand that moved: both components of the delta are non-zero.
C18_Witness ==
  /\ HandSeen
  /\ gesture.isOpenHand
  /\ palmBefore # Null
  /\ gesture.rotation.x # 0 /\ gesture.rotation.y # 0

\* C19: the published position delta is (-(palm.x - prev.x) * 5,
\* -(palm.y - prev.y) * 5) when the frame is peace and a previous palm
\* position exists, and exactly (0, 0) otherwise.
C19_PositionDelta ==
  HandSeen =>
    gesture.position =
      IF gesture.isPeace /\ palmBefore # Null
      THEN Vec(-((gesture.palmPosition[1].x - palmBefore[1].x) * 5),
               -((gesture.palmPosition[1].y - palmBefore[1].y) * 5))
      ELSE Zero2

\* A peace sign that moved: both components of the delta are non-zero.
C19_Witness ==
  /\ HandSeen
  /\ gesture.isPeace
  /\ palmBefore # Null
  /\ gesture.position.x # 0 /\ gesture.position.y # 0

\* C20: after every frame in which a hand is present the stored previous
\* palm position equals that frame's palm position, whatever the gesture.
C20_PreviousPalmUpdated ==
  HandSeen =>
    /\ prevPalmPosition # Null
    /\ prevPalmPosition = gesture.palmPosition
    /\ prevPalmPosition = Some(palmPosition(hand))

\* A hand with no recognised gesture moved, and the ref followed it.
C20_Witness ==
  /\ HandSeen
  /\ FlagsOf(gesture) = {}
  /\ palmBefore # Null
  /\ palmBefore # prevPalmPosition
  /\ prevPalmPosition = gesture.palmPosition

\* The finger with tip, pip and mcp index f[1], f[2], f[3] of hand h passes
\* both strict comparisons.
PassesBoth(h, f) ==
  /\ 400 * Dist2(h[f[1]], h[0]) > 361 * Dist2(h[f[2]], h[0])
  /\ Dist2(h[f[1]], h[0]) > Dist2(h[f[3]], h[0])

\* C21: a non-thumb finger is extended exactly when its tip-to-wrist
\* distance is strictly greater than 0.95 times its pip-to-wrist distance and
\* strictly greater than its base-to-wrist distance; equality on either
\* comparison means not extended.  With the thumb and the other fingers
\* closed the index test alone decides between zoom-out and fist.
C21_FingerExtension ==
  HandSeen =>
    /\ Extended(hand).index = PassesBoth(hand, <<8, 6, 5>>)
    /\ Extended(hand).middle = PassesBoth(hand, <<12, 10, 9>>)
    /\ Extended(hand).ring = PassesBoth(hand, <<16, 14, 13>>)
    /\ Extended(hand).pinky = PassesBoth(hand, <<20, 18, 17>>)
    /\ (/\ Dist2(hand[4], hand[5]) <= 144
        /\ ~PassesBoth(hand, <<12, 10, 9>>)
        /\ ~PassesBoth(hand, <<16, 14, 13>>)
        /\ ~PassesBoth(hand, <<20, 18, 17>>))
       => /\ gesture.isZoomOut = PassesBoth(hand, <<8, 6, 5>>)
          /\ gesture.isFist = ~PassesBoth(hand, <<8, 6, 5>>)

\* The index tip is at exactly 0.95 of the pip distance and beyond the base,
\* everything else is closed: the index does not count and the hand is a fist.
C21_Witness ==
  /\ HandSeen
  /\ 400 * Dist2(hand[8], hand[0]) = 361 * Dist2(hand[6], hand[0])
  /\ Dist2(hand[8], hand[0]) > Dist2(hand[5], hand[0])
  /\ gesture.isFist
  /\ ~gesture.isZoomOut

\* C22: the thumb is extended exactly when the thumb tip (4) is strictly
\* more than 0.12 from the index base (5), wherever the wrist and the other
\* thumb joints are; with the thumb tip 0.30 away and only the index finger
\* extended the classifier reports zoom-in and not zoom-out.
C22_ThumbExtension ==
  HandSeen =>
    /\ Extended(hand).thumb = (Dist2(hand[4], hand[5]) > 144)
    /\ (/\ PassesBoth(hand, <<8, 6, 5>>)
        /\ ~PassesBoth(hand, <<12, 10, 9>>)
        /\ ~PassesBoth(hand, <<16, 14, 13>>)
        /\ ~PassesBoth(hand, <<20, 18, 17>>))
       => /\ gesture.isZoomIn = (Dist2(hand[4], hand[5]) > 144)
          /\ gesture.isZoomOut = (Dist2(hand[4], hand[5]) <= 144)

\* Thumb tip 0.30 from the index base, only the index finger extended.
C22_Witness ==
  /\ HandSeen
  /\ Dist2(hand[4], hand[5]) = 900
  /\ PassesBoth(hand, <<8, 6, 5>>)
  /\ FlagsOf(gesture) = {"isZoomIn"}

(***************************************************************************)
(* Vocabulary of the page's properties.                                    *)
(***************************************************************************)
\* A step that is one run of the gesture sound effect.
EffectStep == effectPending /\ ~effectPending'

\* The sound type and the debounce time of each flag's cue.
CueType(f) ==
  CASE f \in {"isZoomIn", "isZoomOut"} -> "zoom"
    [] f = "isOpenHand" -> "rotate"
    [] f = "isPeace" -> "move"
    [] f = "isFist" -> "freeze"
    [] f = "isReset" -> "reset"

CueDebounce(f) == IF f \in {"isOpenHand", "isPeace"} THEN 1000 ELSE 500

PlayedTypes(seq) == {seq[i] : i \in 1..Len(seq)}

\* C23: audio cues fire on rising edges only: a run of the effect requests
\* the cue of a flag exactly when the flag was false in the previously
\* observed GestureState and is true in the current one; nothing is
\* requested for the first GestureState observed after mount.
C23_RisingEdges ==
  [][EffectStep =>
       cued' = IF prevGesture = Null
               THEN {}
               ELSE {f \in GestureFlags : ~prevGesture[1][f] /\ gesture[f]}]_vars

\* The fist was observed twice in a row after its cue: the second run
\* requested nothing.
C23_Witness ==
  /\ ~effectPending
  /\ gesture.isFist
  /\ prevGesture = Some(gesture)
  /\ cued = {}
  /\ lastPlayed["freeze"] > 0

\* C29: playSound(type, d) plays nothing and leaves the type's timestamp
\* unchanged when fewer than d milliseconds have passed since the type was
\* last played (d = 500, or 1000 for rotate and move), and otherwise plays
\* and stamps the time; zoom-in and zoom-out share the type zoom; the
\* timestamps of the types not requested are not touched.
C29_Debounce ==
  [][EffectStep =>
       \A T \in SoundTypes :
         LET callers == {f \in cued' : CueType(f) = T}
         IN IF callers = {}
            THEN lastPlayed'[T] = lastPlayed[T] /\ T \notin PlayedTypes(played')
            ELSE \A f \in callers :
                   IF now - lastPlayed[T] < CueDebounce(f)
                   THEN /\ lastPlayed'[T] = lastPlayed[T]
                        /\ T \notin PlayedTypes(played')
                   ELSE /\ lastPlayed'[T] = now
                        /\ T \in PlayedTypes(played')]_vars

\* A zoom-out edge within 500 ms of a zoom cue: requested, nothing played.
C29_Witness ==
  /\ ~effectPending
  /\ cued = {"isZoomOut"}
  /\ played = <<>>
  /\ lastPlayed["zoom"] > 0
  /\ now - lastPlayed["zoom"] < 500

\* C24, as stated: every time a different model type is selected the object
\* then shown starts from a fresh interaction state, targets (0,0), (0,0)
\* and 1 and not frozen, for every pair of distinct model types including
\* two primitive shapes.
C24_Original ==
  [][selected' # selected =>
       /\ targetRotation' = Zero2
       /\ targetPosition' = Zero2
       /\ targetScale' = One
       /\ ~isFrozen']_vars

(***************************************************************************)
(* Vocabulary of the target updates: the values a frame starts its updates *)
(* from (those the frame's reset, if any, left) and the zoom steps.        *)
(***************************************************************************)
BaseRotation == IF gesture.isReset THEN Zero2 ELSE targetRotation
BasePosition == IF gesture.isReset THEN Zero2 ELSE targetPosition
BaseScale == IF gesture.isReset THEN One ELSE targetScale

\* Zoom-in, then zoom-out, applied to the scale v.
Zoomed(v) ==
  LET up == IF gesture.isZoomIn THEN Min(ScaleMax, v + ZoomStep) ELSE v
  IN IF gesture.isZoomOut
     THEN Max(ScaleMin(modelType), up - ZoomStep)
     ELSE up

\* C25: in a frame that ends Active zoom-in sets targetScale to
\* min(3, targetScale + 0.02) and zoom-out to max(scaleMin, targetScale -
\* 0.02), scaleMin being 0.2 for the solar system and 0.3 otherwise; with
\* neither flag, or when the frame ends Frozen, targetScale is unchanged
\* unless the frame is a reset.  The targetScale a zoom statement reads is
\* the value the statements before it left: 1 in a reset frame.
C25_ZoomStep ==
  [][FrameStep =>
       /\ ~isFrozen' => targetScale' = Zoomed(BaseScale)
       /\ isFrozen' => targetScale' = targetScale]_vars

\* Two zoom-in frames have run and the scale sits on the upper limit: in
\* the last one 3 + 0.02 was cut back to 3.
C25_Witness ==
  /\ rendered >= 2
  /\ FlagsOf(gesture) = {"isZoomIn"}
  /\ ~isFrozen
  /\ targetScale = ScaleMax

C27_UnfreezeSameFrame ==
  [][(FrameStep /\ isFrozen /\ ~gesture.isFist /\ AnyUpdate(gesture)) =>
       /\ ~isFrozen'
       /\ gesture.isOpenHand =>
            targetRotation' = Plus(BaseRotation, gesture.rotation)
       /\ gesture.isPeace =>
            targetPosition' =
              Vec(Clamp(BasePosition.x + gesture.position.x,
                        -PositionClampX, PositionClampX),
                  Clamp(BasePosition.y + gesture.position.y,
                        -PositionClampY, PositionClampY))
       /\ targetScale' = Zoomed(BaseScale)]_vars

\* A zoom-in frame ran on a frozen object: it is Active and the scale has
\* already taken the step.
C27_Witness ==
  /\ AfterFrame /\ wasFrozen /\ ~isFrozen
  /\ rendered = 1
  /\ FlagsOf(gesture) = {"isZoomIn"}
  /\ targetScale = One + ZoomStep

\* C28: in a frame with isReset true the reset is applied after the fist and
\* unfreeze checks and before the open-hand, peace and zoom updates, so the
\* frame ends Active with every other true flag applied on top of the reset
\* values (reset with zoom-in ends with targetScale 1.02).
C28_ResetFirst ==
  [][(FrameStep /\ gesture.isReset) =>
       /\ ~isFrozen'
       /\ targetRotation' =
            IF gesture.isOpenHand THEN gesture.rotation ELSE Zero2
       /\ targetPosition' =
            IF gesture.isPeace
            THEN Vec(Clamp(gesture.position.x, -PositionClampX, PositionClampX),
                     Clamp(gesture.position.y, -PositionClampY, PositionClampY))
            ELSE Zero2
       /\ targetScale' = Zoomed(One)]_vars

\* Two frames ran on reset together with zoom-in: the scale is 1.02, not
\* 1.04.
C28_Witness ==
  /\ rendered >= 2
  /\ FlagsOf(gesture) = {"isReset", "isZoomIn"}
  /\ ~isFrozen
  /\ targetScale = One + ZoomStep

(***************************************************************************)
(* Vocabulary of the indicator's properties.                               *)
(***************************************************************************)
\* The stated precedence of the indicator, highest first.
IndicatorPrecedence ==
  <<"isZoomIn", "isZoomOut", "isPeace", "isOpenHand", "isFist", "isReset">>

\* The label that names each gesture.
LabelOf(f) ==
  CASE f = "isZoomIn" -> "ZOOM IN"
    [] f = "isZoomOut" -> "ZOOM OUT"
    [] f = "isPeace" -> "POSITION"
    [] f = "isOpenHand" -> "ROTATE"
    [] f = "isFist" -> "FREEZE"
    [] f = "isReset" -> "RESET"
    [] f = "none" -> "none"

\* The flag combinations calculateGesture publishes over all hands.
ClassifierFlagSets ==
  { FlagsOf(calculateGesture(h, Null).published) : h \in Hands }

\* C30: the indicator shows at most one label, that of the first true flag
\* in the order zoom-in, zoom-out, peace, open-hand, fist, reset, and nothing
\* when tracking is off or no flag is true; for every GestureState the
\* classifier can produce, the label names the gesture in whose colours the
\* overlay is drawn.
C30_IndicatorPrecedence ==
  /\ indicator # "unrendered" =>
       IF ~isTracking \/ FlagsOf(gesture) = {}
       THEN indicator = "none"
       ELSE \E i \in 1..Len(IndicatorPrecedence) :
              /\ gesture[IndicatorPrecedence[i]]
              /\ \A j \in 1..(i - 1) : ~gesture[IndicatorPrecedence[j]]
              /\ indicator = LabelOf(IndicatorPrecedence[i])
  /\ ( /\ indicator # "unrendered" /\ overlay # "undrawn"
       /\ isTracking
       /\ FlagsOf(gesture) \in ClassifierFlagSets ) =>
       indicator = LabelOf(overlay)

\* Open-hand, fist and reset are all true while tracking: the indicator
\* shows ROTATE although the overlay is drawn in the fist's colours.
C30_Witness ==
  /\ isTracking
  /\ FlagsOf(gesture) = {"isOpenHand", "isFist", "isReset"}
  /\ indicator = "ROTATE"
  /\ overlay = "isFist"

\* C31: the classifier's flags are mutually exclusive: at most one of the
\* six flags is true in a published GestureState, isFist is never true
\* together with another flag, and a hand with only thumb, index and middle
\* extended has none.
C31_FlagsExclusive ==
  /\ Cardinality(FlagsOf(gesture)) <= 1
  /\ gesture.isFist => FlagsOf(gesture) = {"isFist"}
  /\ HandSeen =>
       LET e == Extended(hand)
       IN (e.thumb /\ e.index /\ e.middle /\ ~e.ring /\ ~e.pinky) =>
            FlagsOf(gesture) = {}

\* A hand with only thumb, index and middle extended was classified.
C31_Witness ==
  /\ HandSeen
  /\ LET e == Extended(hand)
     IN e.thumb /\ e.index /\ e.middle /\ ~e.ring /\ ~e.pinky
  /\ FlagsOf(gesture) = {}
  /\ gesture.palmPosition # Null

\* C32: a frame whose GestureState has isFist true and isReset false leaves
\* targetRotation, targetPosition and targetScale unchanged, from an Active
\* as from a Frozen object and whatever the other flags and deltas are: the
\* freeze takes effect before the target updates of the same frame.
C32_FistKeepsTargets ==
  [][(FrameStep /\ gesture.isFist /\ ~gesture.isReset) =>
       /\ isFrozen'
       /\ targetRotation' = targetRotation
       /\ targetPosition' = targetPosition
       /\ targetScale' = targetScale]_vars

\* An Active object that had been rotated ran a frame on fist together with
\* open-hand and a non-zero rotation delta: the rotation target stayed.
C32_Witness ==
  /\ AfterFrame /\ rendered = 1
  /\ ~wasFrozen /\ isFrozen
  /\ FlagsOf(gesture) = {"isFist", "isOpenHand"}
  /\ gesture.rotation = MovingRotation
  /\ targetRotation = MovingRotation

(***************************************************************************)
(* Vocabulary of the lifecycle's properties.                               *)
(***************************************************************************)
\* startTracking calls between their first and their last statement.
inFlight == loadingModel + openingCamera

\* A step in which the timer calls startTracking.
StartCalled == timer # Null /\ timer' = Null

\* A step in which a startTracking call ends without starting the loop.
StartFailed == inFlight' < inFlight /\ chains' = chains

\* C33: under every interleaving of the auto-start timer, the awaits of
\* startTracking, renders (and stopTracking), at most one startTracking call
\* is in flight and at most one requestAnimationFrame chain runs, and a
\* startTracking call made while isLoading or isTracking is true returns
\* without effect.
C33_OneDetectionLoop ==
  /\ [](inFlight <= 1 /\ chains <= 1)
  /\ [][(StartCalled /\ (isTracking \/ isLoading)) =>
          /\ lastStart' = "returned"
          /\ UNCHANGED <<isTracking, isLoading, loadingModel, openingCamera,
                         chains, handLandmarkerRef, stream>>]_vars

\* While a call waits for the camera, the timer armed by the render that
\* followed setIsLoading(true) fired, and its call returned at the guard.
C33_Witness ==
  /\ lastStart = "returned"
  /\ openingCamera = 1
  /\ isLoading
  /\ timer = Null

\* C34, as stated: once stopTracking has run and until startTracking is
\* called again, isTracking is false, the landmarker ref is null and no
\* detection frame can be processed, also when stopTracking ran while a
\* startTracking call was waiting for the model or the camera.
C34_Original ==
  stopped =>
    /\ ~isTracking
    /\ handLandmarkerRef = Null
    /\ ~(chains > 0 /\ stream)

====
